---- MODULE Spec2Model ----
(***************************************************************************)
(* Fantasy-World-Gen-3: hex-grid heightmap generation and coastline        *)
(* extraction.                                                             *)
(*                                                                         *)
(* Numbers.  Pixel coordinates of hex corners are irrational multiples of  *)
(* hexSize, so a point is kept in lattice form: a point with fields        *)
(* hx, hy, den and size stands for the pixel point                         *)
(*     x = (hx / den) * size / 2,    y = (hy / den) * size * sqrt(3) / 2.  *)
(* For the flat-topped layout of hexToPixelFlatOffset the centre of cell   *)
(* (col,row) is hx = 3*col, hy = 2*row + (col & 1), and its six corners    *)
(* are the centre plus (2,0),(1,1),(-1,1),(-2,0),(-1,-1),(1,-1).           *)
(* hexSize is an optional value: <<>> is "undefined" (the option was not   *)
(* given), <<n>> is the number n * 0.0001.                                 *)
(***************************************************************************)
EXTENDS Integers, Sequences, FiniteSets, TLC

VARIABLES merge, coast, gen, browser, grid, sdf, stepper

vars == <<merge, coast, gen, browser, grid, sdf, stepper>>

(***************************************************************************)
(* Bounds of the model.                                                    *)
(***************************************************************************)
MaxCols == 2
MaxRows == 2
MaxSegs == 3

Abs(n) == IF n < 0 THEN 0 - n ELSE n

Idle == [pc |-> "idle"]

(***************************************************************************)
(* src/utils/hexToPixel.js and the corner formula of maskCoastline         *)
(***************************************************************************)
\* hexToPixelFlatOffset: x = 1.5*size*col, y = sqrt(3)*size*(row + 0.5*(col & 1))
hexToPixelFlatOffset(cell, size) ==
    [hx |-> 3 * cell.col, hy |-> 2 * cell.row + (cell.col % 2), den |-> 1, size |-> size]

\* cos and sin of 60*i degrees, in units of 1/2 and sqrt(3)/2
CosHalf(i) == <<2, 1, -1, -2, -1, 1>>[(i % 6) + 1]
SinHalf(i) == <<0, 1, 1, 0, -1, -1>>[(i % 6) + 1]

\* { x: cx + hexSize*cos(angle), y: cy + hexSize*sin(angle) } for angle 60*i
Corner(cell, i, size) ==
    LET c == hexToPixelFlatOffset(cell, size)
    IN  [hx |-> c.hx + CosHalf(i), hy |-> c.hy + SinHalf(i), den |-> 1, size |-> size]

(***************************************************************************)
(* Number.prototype.toFixed(3) on a coordinate.  The result string is      *)
(* modelled by its sign and its value in thousandths; "NaN" is NaNStr.     *)
(* A negative number that rounds to zero prints as "-0.000".               *)
(***************************************************************************)
NaNStr == [neg |-> FALSE, mag |-> 0 - 1]

\* round(a * sqrt(3) / (20 * d)) for a >= 0, d > 0; never a tie because sqrt(3) is irrational
RoundSqrt3(a, d) ==
    IF a = 0 THEN 0
    ELSE CHOOSE m \in 0 .. (a \div (10 * d) + 1) :
            /\ (m = 0 \/ (20 * d * m - 10 * d) * (20 * d * m - 10 * d) <= 3 * a * a)
            /\ 3 * a * a < (20 * d * m + 10 * d) * (20 * d * m + 10 * d)

\* p.x.toFixed(3): x * 1000 = hx * size / (20 * den), size in units of 0.0001
ToFixedX(p) ==
    IF p.size = <<>> THEN NaNStr
    ELSE [neg |-> p.hx < 0,
          mag |-> (2 * Abs(p.hx) * p.size[1] + 20 * p.den) \div (40 * p.den)]

\* p.y.toFixed(3): y * 1000 = hy * size * sqrt(3) / (20 * den)
ToFixedY(p) ==
    IF p.size = <<>> THEN NaNStr
    ELSE [neg |-> p.hy < 0, mag |-> RoundSqrt3(Abs(p.hy) * p.size[1], p.den)]

(***************************************************************************)
(* mergeSegmentsIntoLoops (src/steps/02_maskCoastline.js)                  *)
(***************************************************************************)
\* `${p.x.toFixed(3)},${p.y.toFixed(3)}`
ptKey(p) == <<ToFixedX(p), ToFixedY(p)>>

\* k1 < k2 ? `${k1}|${k2}` : `${k2}|${k1}`: one string per unordered pair of keys
edgeKey(k1, k2) == {k1, k2}

\* Set.prototype.add on a Set kept in insertion order
SetAdd(s, k) == IF \E n \in 1 .. Len(s) : s[n] = k THEN s ELSE Append(s, k)

\* the body of the loop "for (const [a, b] of segments)" for one segment
AddSegment(nb, seg) ==
    LET ka == ptKey(seg[1])
        kb == ptKey(seg[2])
        keys1 == SetAdd(nb.keys, ka)
        keys2 == SetAdd(keys1, kb)
        has(k) == \E n \in 1 .. Len(nb.keys) : nb.keys[n] = k
        pt1 == IF has(ka) THEN nb.pt ELSE (ka :> seg[1]) @@ nb.pt
        pt2 == IF has(kb) \/ kb = ka THEN pt1 ELSE (kb :> seg[2]) @@ pt1
        adj0 == nb.adj @@ [k \in {ka, kb} |-> <<>>]
        adj1 == [adj0 EXCEPT ![ka] = SetAdd(adj0[ka], kb)]
        adj2 == [adj1 EXCEPT ![kb] = SetAdd(adj1[kb], ka)]
    IN  [keys |-> keys2, pt |-> pt2, adj |-> [k \in DOMAIN pt2 |-> adj2[k]]]

\* the loop "for (const [a, b] of segments)" from segment n on; the Map never holds
\* more than two keys per segment (reading nb here also keeps its evaluation strict)
RECURSIVE BuildNeighbors(_, _, _)
BuildNeighbors(nb, segments, n) ==
    IF n > Len(segments) \/ Len(nb.keys) > 2 * Len(segments) THEN nb
    ELSE BuildNeighbors(AddSegment(nb, segments[n]), segments, n + 1)

EmptyNeighbors == [keys |-> <<>>, pt |-> <<>>, adj |-> <<>>]

\* the state of mergeSegmentsIntoLoops when its walk starts
MergeInit(segments) ==
    LET nb == BuildNeighbors(EmptyNeighbors, segments, 1)
    IN  [pc |-> "scan", segments |-> segments,
         keys |-> nb.keys, pt |-> nb.pt, adj |-> nb.adj,
         usedEdges |-> {}, loops |-> <<>>,
         si |-> 1, ai |-> 1,
         loop |-> <<>>, prevKey |-> <<>>, currKey |-> <<>>,
         marks |-> 0]

\* NextUnused without the test "!usedEdges.has(eKey)"
NextUnusedIgnoringUsed(m) ==
    LET currAdj == m.adj[m.currKey]
    IN  IF \E n \in 1 .. Len(currAdj) : currAdj[n] # m.prevKey
        THEN CHOOSE n \in 1 .. Len(currAdj) :
                currAdj[n] # m.prevKey /\ \A k \in 1 .. (n - 1) : currAdj[k] = m.prevKey
        ELSE 0

\* the first nKey of currAdj with nKey !== prevKey whose edge is unused (0: none)
NextUnused(m) ==
    LET currAdj == m.adj[m.currKey]
        ok(n) == /\ currAdj[n] # m.prevKey
                 /\ edgeKey(m.currKey, currAdj[n]) \notin m.usedEdges
    IN  IF \E n \in 1 .. Len(currAdj) : ok(n)
        THEN CHOOSE n \in 1 .. Len(currAdj) : ok(n) /\ \A k \in 1 .. (n - 1) : ~ok(k)
        ELSE 0

\* "if (loop.length > 2) loops.push(loop)"; closed records how the walk ended
PushLoop(loops, loop, closed) ==
    IF Len(loop) > 2 THEN Append(loops, [pts |-> loop, closed |-> closed]) ELSE loops

\* one step at the head of the two nested for-loops over start keys and their adj sets
ScanStep(m) ==
    IF m.si > Len(m.keys) THEN [m EXCEPT !.pc = "done"]
    ELSE LET startKey == m.keys[m.si]
             a == m.adj[startKey]
         IN  IF m.ai > Len(a) THEN [m EXCEPT !.si = m.si + 1, !.ai = 1]
             ELSE LET nextKey == a[m.ai]
                      ek == edgeKey(startKey, nextKey)
                  IN  IF ek \in m.usedEdges THEN [m EXCEPT !.ai = m.ai + 1]
                      ELSE [m EXCEPT !.pc = "walk",
                                     !.loop = <<m.pt[startKey]>>,
                                     !.prevKey = startKey,
                                     !.currKey = nextKey,
                                     !.usedEdges = m.usedEdges \cup {ek},
                                     !.marks = m.marks + 1]

\* one test of "while (currKey !== startKey)" and, when it holds, one body
WalkStep(m) ==
    LET startKey == m.keys[m.si]
    IN  IF m.currKey = startKey
        THEN [m EXCEPT !.pc = "scan", !.ai = m.ai + 1,
                       !.loops = PushLoop(m.loops, m.loop, TRUE), !.loop = <<>>]
        ELSE LET loop2 == Append(m.loop, m.pt[m.currKey])
                 n == NextUnused(m)
             IN  IF n = 0
                 THEN [m EXCEPT !.pc = "scan", !.ai = m.ai + 1,
                                !.loops = PushLoop(m.loops, loop2, FALSE), !.loop = <<>>]
                 ELSE LET nKey == m.adj[m.currKey][n]
                      IN  [m EXCEPT !.loop = loop2,
                                    !.usedEdges = m.usedEdges \cup {edgeKey(m.currKey, nKey)},
                                    !.marks = m.marks + 1,
                                    !.prevKey = m.currKey,
                                    !.currKey = nKey]

MergeStep(m) == IF m.pc = "scan" THEN ScanStep(m) ELSE WalkStep(m)

\* up to k steps in a row
RECURSIVE MergeSteps(_, _)
MergeSteps(m, k) == IF k = 0 \/ m.pc = "done" THEN m ELSE MergeSteps(MergeStep(m), k - 1)

RECURSIVE RunMerge(_)
RunMerge(m) == IF m.pc = "done" THEN m ELSE RunMerge(MergeSteps(m, 16))

\* mergeSegmentsIntoLoops(segments): the loops, each with how its walk ended
mergeSegmentsIntoLoops(segments) == RunMerge(MergeInit(segments)).loops

(***************************************************************************)
(* SpecMerge: mergeSegmentsIntoLoops run step by step on an arbitrary      *)
(* list of segments over a small pool of points.                           *)
(***************************************************************************)
\* hexSize 0.002: the pool's keys are pairwise distinct; 0.0004: the first two share a key
PoolSizes == {<<20>>, <<4>>}
PoolPoint(h, v, size) == [hx |-> h, hy |-> v, den |-> 1, size |-> size]
Pool(size) == {PoolPoint(0, 0, size), PoolPoint(1, 0, size), PoolPoint(5, 0, size)}

SegLists(size) ==
    UNION {[1 .. n -> Pool(size) \X Pool(size)] : n \in 0 .. MaxSegs}

InitMerge ==
    /\ \E size \in PoolSizes : \E segs \in SegLists(size) : merge = MergeInit(segs)
    /\ coast = Idle
    /\ gen = Idle
    /\ browser = Idle
    /\ grid = Idle
    /\ sdf = Idle
    /\ stepper = Idle

Scan ==
    /\ merge.pc = "scan"
    /\ merge' = ScanStep(merge)
    /\ UNCHANGED <<coast, gen, browser, grid, sdf, stepper>>

Walk ==
    /\ merge.pc = "walk"
    /\ merge' = WalkStep(merge)
    /\ UNCHANGED <<coast, gen, browser, grid, sdf, stepper>>

NextMerge == Scan \/ Walk

SpecMerge == InitMerge /\ [][NextMerge]_vars /\ WF_vars(NextMerge)

(***************************************************************************)
(* createHexGrid (src/demo/stepper.js) and maskCoastline                   *)
(* (src/steps/02_maskCoastline.js)                                         *)
(***************************************************************************)
\* Math.floor(col / 2) for col >= 0
Floor2(col) == col \div 2

\* the inner loop "for (let row = 0; row < H; row++)" from row on
RECURSIVE RowLoop(_, _, _, _)
RowLoop(cells, col, row, H) ==
    IF row >= H THEN cells
    ELSE RowLoop(Append(cells, [col |-> col, row |-> row, q |-> col,
                                r |-> row - Floor2(col)]),
                 col, row + 1, H)

\* the outer loop "for (let col = 0; col < W; col++)" from col on
RECURSIVE ColLoop(_, _, _, _)
ColLoop(cells, col, W, H) ==
    IF col >= W THEN cells ELSE ColLoop(RowLoop(cells, col, 0, H), col + 1, W, H)

\* createHexGrid with "col <= W" as the test of the outer loop
createHexGridInclusive(W, H) == ColLoop(<<>>, 0, W + 1, H)

\* createHexGrid with the cells pushed row by row
createHexGridRowMajor(W, H) ==
    [k \in 1 .. (IF W > 0 /\ H > 0 THEN W * H ELSE 0) |->
        LET col == (k - 1) % W
            row == (k - 1) \div W
        IN  [col |-> col, row |-> row, q |-> col, r |-> row - Floor2(col)]]

\* createHexGrid(W, H): cells.push({col, row, q: col, r: row - Math.floor(col / 2)}) for
\* every col and, within it, every row
createHexGrid(W, H) == ColLoop(<<>>, 0, W, H)

\* Heights and sea levels are in tenths.  A height that is NaN (the Float32Array of a
\* flat field holds NaN) is written as a number outside the range of the heights;
\* a comparison with NaN is false whichever way it is asked.
NotANumber == 0 - 1
\* h >= seaLevel
AtLeast(h, seaLevel) == h # NotANumber /\ h >= seaLevel
\* h < seaLevel
Below(h, seaLevel) == h # NotANumber /\ h < seaLevel

\* IsLandAt with > in place of >=
IsLandAtStrict(heightMap, idx, seaLevel) ==
    IF idx <= Len(heightMap) /\ heightMap[idx] > seaLevel THEN 1 ELSE 0

\* heightMap[idx] >= seaLevel ? 1 : 0 ; an index past the end of heightMap reads undefined
IsLandAt(heightMap, idx, seaLevel) ==
    IF idx <= Len(heightMap) /\ AtLeast(heightMap[idx], seaLevel) THEN 1 ELSE 0

\* const landMask = hexGrid.map((cell, idx) => heightMap[idx] >= seaLevel ? 1 : 0)
LandMaskOf(hexGrid, heightMap, seaLevel) ==
    [idx \in 1 .. Len(hexGrid) |-> IsLandAt(heightMap, idx, seaLevel)]

\* coordToIndex.get(`${q},${r}`): the last index holding these axial coordinates, 0 for none
coordToIndex(hexGrid, q, r) ==
    LET hits == {i \in 1 .. Len(hexGrid) : hexGrid[i].q = q /\ hexGrid[i].r = r}
    IN  IF hits = {} THEN 0 ELSE CHOOSE i \in hits : \A j \in hits : j <= i

\* dirs with every entry moved one edge on
dirsRotated == << <<0, 1>>, <<-1, 1>>, <<-1, 0>>, <<0, -1>>, <<1, -1>>, <<1, 0>> >>

\* flat-topped neighbor directions, indexed by edge 0..5
dirs == << <<1, 0>>, <<0, 1>>, <<-1, 1>>, <<-1, 0>>, <<0, -1>>, <<1, -1>> >>

\* neighborIsLand with a missing neighbor counted as land
neighborIsLandOrMissing(hexGrid, landMask, i, edge) ==
    LET nIdx == coordToIndex(hexGrid, hexGrid[i].q + dirs[edge + 1][1],
                                      hexGrid[i].r + dirs[edge + 1][2])
    IN  nIdx = 0 \/ landMask[nIdx] = 1

\* nIdx != null && landMask[nIdx] === 1 (a missing neighbor counts as water)
neighborIsLand(hexGrid, landMask, i, edge) ==
    LET nIdx == coordToIndex(hexGrid, hexGrid[i].q + dirs[edge + 1][1],
                                      hexGrid[i].r + dirs[edge + 1][2])
    IN  nIdx # 0 /\ landMask[nIdx] = 1

\* the condition under which the scan emits the side `edge` of cell i
EmitsSide(hexGrid, landMask, i, edge) ==
    landMask[i] = 1 /\ ~neighborIsLand(hexGrid, landMask, i, edge)

\* the segments pushed by the scan, in the order of the two nested loops
BoundarySegments(hexGrid, landMask, hexSize) ==
    LET sides == [k \in 1 .. (6 * Len(hexGrid)) |-> <<((k - 1) \div 6) + 1, (k - 1) % 6>>]
        kept == SelectSeq(sides, LAMBDA sd : EmitsSide(hexGrid, landMask, sd[1], sd[2]))
    IN  [n \in 1 .. Len(kept) |->
            <<Corner(hexGrid[kept[n][1]], kept[n][2], hexSize),
              Corner(hexGrid[kept[n][1]], kept[n][2] + 1, hexSize)>>]

\* one pass of chaikin without the wrap from the last point to the first
ChaikinPassOpen(pts) ==
    [k \in 1 .. (2 * Len(pts)) |->
        LET i == (k + 1) \div 2
            p0 == pts[i]
            p1 == pts[IF i = Len(pts) THEN i ELSE i + 1]
        IN  IF k % 2 = 1
            THEN [p0 EXCEPT !.hx = 3 * p0.hx + p1.hx, !.hy = 3 * p0.hy + p1.hy,
                            !.den = 4 * p0.den]
            ELSE [p0 EXCEPT !.hx = p0.hx + 3 * p1.hx, !.hy = p0.hy + 3 * p1.hy,
                            !.den = 4 * p0.den]]

\* one pass of chaikin: for every i the points 0.75*p0 + 0.25*p1 and 0.25*p0 + 0.75*p1
ChaikinPass(pts) ==
    [k \in 1 .. (2 * Len(pts)) |->
        LET i == (k + 1) \div 2
            p0 == pts[i]
            p1 == pts[(i % Len(pts)) + 1]
        IN  IF k % 2 = 1
            THEN [p0 EXCEPT !.hx = 3 * p0.hx + p1.hx, !.hy = 3 * p0.hy + p1.hy,
                            !.den = 4 * p0.den]
            ELSE [p0 EXCEPT !.hx = p0.hx + 3 * p1.hx, !.hy = p0.hy + 3 * p1.hy,
                            !.den = 4 * p0.den]]

RECURSIVE chaikin(_, _)
chaikin(points, iterations) ==
    IF iterations <= 0 THEN points ELSE chaikin(ChaikinPass(points), iterations - 1)

\* the Douglas-Peucker stub returns its input
simplify(points, epsilon) == points

\* pts.map((p,i) => `${i===0?'M':'L'}${p.x},${p.y}`).join(" ") + " Z"
SubPath(pts) ==
    [cmds |-> [i \in 1 .. Len(pts) |-> <<IF i = 1 THEN "M" ELSE "L", pts[i]>>],
     close |-> "Z"]

\* options.smoothingIterations with its default 2, options.simplifyTolerance with 1.5
\* (in tenths); seaLevel and hexSize have no default
SmoothingOf(options) ==
    IF options.smoothingIterations = <<>> THEN 2 ELSE options.smoothingIterations[1]

\* maskCoastline({hexGrid, heightMap}, options).  coastlinePath is the sequence of
\* its subpaths (the empty sequence is the empty string); segments and loops are the
\* function's locals, kept for the properties.
maskCoastline(hexGrid, heightMap, options) ==
    LET landMask == LandMaskOf(hexGrid, heightMap, options.seaLevel)
        cornerMask == [k \in 1 .. (6 * Len(hexGrid)) |->
                          LET hex == hexGrid[((k - 1) \div 6) + 1]
                          IN  [q |-> hex.q, r |-> hex.r,
                               pt |-> Corner(hex, (k - 1) % 6, options.hexSize),
                               isLand |-> landMask[((k - 1) \div 6) + 1]]]
        segments == BoundarySegments(hexGrid, landMask, options.hexSize)
        loops == mergeSegmentsIntoLoops(segments)
        finalLoops == [n \in 1 .. Len(loops) |->
                          simplify(chaikin(loops[n].pts, SmoothingOf(options)),
                                   options.simplifyTolerance)]
    IN  [landMask |-> landMask,
         coastlinePath |-> [n \in 1 .. Len(finalLoops) |-> SubPath(finalLoops[n])],
         cornerMask |-> cornerMask,
         segments |-> segments,
         loops |-> loops]

\* computeLandMask (src/utils/azgaarHexMap.js): landMask[i] = heightMap[i] >= seaLevel ? 1 : 0
computeLandMask(heightMap, seaLevel) ==
    [i \in 1 .. Len(heightMap) |-> IF AtLeast(heightMap[i], seaLevel) THEN 1 ELSE 0]

(***************************************************************************)
(* SpecCoast: one call of maskCoastline on a grid of createHexGrid with an *)
(* index-aligned heightMap.  Heights and sea levels are in tenths.         *)
(***************************************************************************)
HeightLevels == {3, 7}
SeaLevels == {5, 7, 8}
\* undefined, 0.0001, 0.0004, 0.002
HexSizes == {<<>>, <<1>>, <<4>>, <<20>>}
SmoothingChoices == {<<>>, <<1>>}

CoastOptions ==
    [seaLevel : SeaLevels, hexSize : HexSizes,
     smoothingIterations : SmoothingChoices, simplifyTolerance : {1}]

InitCoast ==
    /\ \E W \in 0 .. MaxCols, H \in 0 .. MaxRows :
       \E heightMap \in [1 .. (W * H) -> HeightLevels] :
       \E options \in CoastOptions :
          coast = [pc |-> "call", W |-> W, H |-> H,
                   hexGrid |-> createHexGrid(W, H),
                   heightMap |-> heightMap, options |-> options,
                   result |-> <<>>, azgaar |-> <<>>]
    /\ merge = Idle
    /\ gen = Idle
    /\ browser = Idle
    /\ grid = Idle
    /\ sdf = Idle
    /\ stepper = Idle

\* the arguments as the call leaves them, had landMask been written over heightMap
ArgsAfterCallInPlace(hexGrid, heightMap, landMask) ==
    [hexGrid |-> hexGrid,
     heightMap |-> [i \in DOMAIN heightMap |->
                       IF i <= Len(landMask) THEN landMask[i] ELSE heightMap[i]]]

\* the arguments as the call leaves them: hexGrid is only read (map, forEach, hexGrid[i])
\* and heightMap only indexed; landMask is a new array
ArgsAfterCall(hexGrid, heightMap, landMask) ==
    [hexGrid |-> hexGrid, heightMap |-> heightMap]

MaskCoastline ==
    /\ coast.pc = "call"
    /\ LET result == maskCoastline(coast.hexGrid, coast.heightMap, coast.options)
           args == ArgsAfterCall(coast.hexGrid, coast.heightMap, result.landMask)
       IN  coast' = [coast EXCEPT !.pc = "returned",
                                  !.result = result,
                                  !.hexGrid = args.hexGrid,
                                  !.heightMap = args.heightMap]
    /\ UNCHANGED <<merge, gen, browser, grid, sdf, stepper>>

\* a call of computeLandMask on the same heightMap and seaLevel
ComputeLandMask ==
    /\ coast.azgaar = <<>>
    /\ coast' = [coast EXCEPT !.azgaar =
                     <<computeLandMask(coast.heightMap, coast.options.seaLevel)>>]
    /\ UNCHANGED <<merge, gen, browser, grid, sdf, stepper>>

NextCoast == MaskCoastline \/ ComputeLandMask

SpecCoast == InitCoast /\ [][NextCoast]_vars

\* the distinct undirected edges of the segment list
DistinctEdges(segments) ==
    {edgeKey(ptKey(segments[n][1]), ptKey(segments[n][2])) : n \in 1 .. Len(segments)}

C4_Safe ==
    /\ merge.marks = Cardinality(merge.usedEdges)
    /\ merge.usedEdges \subseteq DistinctEdges(merge.segments)
    /\ Len(merge.loops) <= Cardinality(DistinctEdges(merge.segments))

\* C4: mergeSegmentsIntoLoops terminates on every finite segment list, also with
\* segments whose endpoints share a key: every marking step marks an edge that was
\* unused (the number of markings equals the number of used edges, all of them edges
\* of the input), and there are at most as many loops as distinct undirected edges.
C4_MergeTerminates == [](C4_Safe) /\ <>(merge.pc = "done")

\* a finished run over a list holding a segment whose two endpoints share a key,
\* in which two edges were walked
C4_Witness ==
    /\ merge.pc = "done"
    /\ \E n \in 1 .. Len(merge.segments) :
          /\ merge.segments[n][1] # merge.segments[n][2]
          /\ ptKey(merge.segments[n][1]) = ptKey(merge.segments[n][2])
    /\ merge.marks >= 2
    /\ Len(merge.loops) >= 1

(***************************************************************************)
(* generateHeightmapCore (src/utils/generateHeightmapCore.js)              *)
(*                                                                         *)
(* A double is an exact integer number of units; NaN and the infinities    *)
(* are tagged values.  A Float32Array element is a float with a mantissa   *)
(* of F32Bits bits: the value m * 2^e.  The noise source is injected by    *)
(* the caller; it is a fixed function of the seed and the sample point.    *)
(***************************************************************************)
F32Bits == 4
MaxGenCols == 2
MaxGenRows == 2
MaxOctaves == 2
\* distances are kept in units of 1 / DistScale
DistScale == 4

RECURSIVE Pow2(_)
Pow2(n) == IF n <= 0 THEN 1 ELSE 2 * Pow2(n - 1)

NaN == [k |-> "nan", v |-> 0]
PosInf == [k |-> "inf", v |-> 0]
NegInf == [k |-> "-inf", v |-> 0]
Fin(v) == [k |-> "fin", v |-> v]

\* the float m * 2^e, NaN and the infinities as elements of a Float32Array
F32(m, e) == [k |-> "fin", m |-> m, e |-> e]
F32NaN == [k |-> "nan", m |-> 0, e |-> 0]
F32PosInf == [k |-> "inf", m |-> 0, e |-> 0]
F32NegInf == [k |-> "-inf", m |-> 0, e |-> 0]

\* the exponent e with 2^(F32Bits-1) <= a / (d * 2^e) < 2^F32Bits, as <<A, D, e>>
\* with A / D = a / (d * 2^e)
RECURSIVE FindExp(_, _, _)
FindExp(A, D, e) ==
    IF A >= D * Pow2(F32Bits) THEN FindExp(A, 2 * D, e + 1)
    ELSE IF A < D * Pow2(F32Bits - 1) THEN FindExp(2 * A, D, e - 1)
    ELSE <<A, D, e>>

\* the Float32 nearest to n / d (d > 0), ties to even
F32Quot(n, d) ==
    IF n = 0 THEN F32(0, 0)
    ELSE LET t == FindExp(Abs(n), d, 0)
             m0 == t[1] \div t[2]
             rem == t[1] % t[2]
             up == 2 * rem > t[2] \/ (2 * rem = t[2] /\ m0 % 2 = 1)
             m1 == IF up THEN m0 + 1 ELSE m0
             m == IF m1 = Pow2(F32Bits) THEN Pow2(F32Bits - 1) ELSE m1
             e == IF m1 = Pow2(F32Bits) THEN t[3] + 1 ELSE t[3]
         IN  F32(IF n < 0 THEN 0 - m ELSE m, e)

\* the double read back from a Float32Array element that was stored from an integer
F32Value(x) == IF x.e >= 0 THEN x.m * Pow2(x.e) ELSE x.m \div Pow2(0 - x.e)

\* heightMap[i] = value: the store into the Float32Array rounds the double
Fround(value) ==
    IF value.k = "fin" THEN Fin(F32Value(F32Quot(value.v, 1))) ELSE value

\* createNoise2D(seedrandom(seed)) at the sample point of cell hex and octave o:
\* a value in [-1, 1] in units of 1/32, finer than a Float32 mantissa
noise2D(seed, hex, o) == ((seed * 23 + hex.col * 17 + hex.row * 29 + o * 11 + 2) % 65) - 32

\* amp at octave o: amplitude * persistence^o with the defaults 1.0 and 0.5,
\* in units of 2^-MaxOctaves
AmpAt(o) == Pow2(MaxOctaves - o)

\* the loop "for (let o = 0; o < octaves; o++) value += noise2D(...) * amp"
RECURSIVE OctaveSum(_, _, _, _)
OctaveSum(seed, hex, octaves, o) ==
    IF o >= octaves THEN 0
    ELSE noise2D(seed, hex, o) * AmpAt(o) + OctaveSum(seed, hex, octaves, o + 1)

ISqrt(n) == CHOOSE r \in 0 .. n : r * r <= n /\ (r + 1) * (r + 1) > n

\* the squared pixel distance between two cells, in units of hexSize^2 / 4
PixelDist2(a, b) ==
    LET dx == 3 * a.col - 3 * b.col
        dy == (2 * a.row + (a.col % 2)) - (2 * b.row + (b.col % 2))
    IN  dx * dx + 3 * dy * dy

\* centerHex = { col: floor(gridWidth/2), row: floor(gridHeight/2) }
centerHex(options) == [col |-> options.gridWidth \div 2, row |-> options.gridHeight \div 2]

\* maxDist^2 = centerX^2 + centerY^2, in units of hexSize^2 / 4
MaxDist2(options) == PixelDist2(centerHex(options), [col |-> 0, row |-> 0])

\* falloff for dist = t / DistScale, in units of 1 / DistScale^3, after Math.max(0, .)
FalloffOf(curve, t) ==
    LET S == DistScale
        raw == CASE curve = "smooth" -> S * S * S - (3 * t * t * S - 2 * t * t * t)
                 [] curve = "power" -> (S - t) * (S - t) * S
                 [] OTHER -> (S - t) * S * S
    IN  IF raw < 0 THEN 0 ELSE raw

\* the elevation of one cell before normalization, as a double
CellValue(seed, options, hex) ==
    LET sum == OctaveSum(seed, hex, options.octaves, 0)
        S3 == DistScale * DistScale * DistScale
    IN  IF options.gradientFalloff = "circular"
        THEN IF MaxDist2(options) = 0
             THEN NaN   \* dist = 0 / 0
             ELSE LET t == ISqrt((DistScale * DistScale
                                   * PixelDist2(hex, centerHex(options)))
                                  \div MaxDist2(options))
                  IN  Fin(sum * FalloffOf(options.falloffCurve, t))
        ELSE Fin(sum * S3)

\* value < min, value > max on doubles; a comparison with NaN is false
Less(a, b) ==
    /\ a.k # "nan" /\ b.k # "nan"
    /\ \/ a.k = "-inf" /\ b.k # "-inf"
       \/ b.k = "inf" /\ a.k # "inf"
       \/ a.k = "fin" /\ b.k = "fin" /\ a.v < b.v

\* min as it is when the cell loop starts; a stale value would be the one left by
\* the call before
StaleMin == IF gen.pc = "idle" THEN PosInf ELSE gen.min
\* let min = Infinity
InitialMin == PosInf
\* let max = -Infinity
InitialMax == NegInf

\* the cell loop storing each value at the front of the array instead of at index i
RECURSIVE CellLoopReversed(_, _, _, _, _)
CellLoopReversed(seed, options, hexGrid, i, acc) ==
    IF i > Len(hexGrid) THEN acc
    ELSE LET value == CellValue(seed, options, hexGrid[i])
         IN  CellLoopReversed(seed, options, hexGrid, i + 1,
                      [heightMap |-> <<Fround(value)>> \o acc.heightMap,
                       min |-> IF Less(value, acc.min) THEN value ELSE acc.min,
                       max |-> IF Less(acc.max, value) THEN value ELSE acc.max])

\* the cell loop: heightMap[i] = value; if (value < min) min = value; if (value > max) max = value
RECURSIVE CellLoop(_, _, _, _, _)
CellLoop(seed, options, hexGrid, i, acc) ==
    IF i > Len(hexGrid) THEN acc
    ELSE LET value == CellValue(seed, options, hexGrid[i])
         IN  CellLoop(seed, options, hexGrid, i + 1,
                      [heightMap |-> Append(acc.heightMap, Fround(value)),
                       min |-> IF Less(value, acc.min) THEN value ELSE acc.min,
                       max |-> IF Less(acc.max, value) THEN value ELSE acc.max])

\* heightMap[i] = (heightMap[i] - min) / (max - min), stored into the Float32Array
Normalize(h, min, max) ==
    IF h.k = "nan" \/ min.k # "fin" \/ max.k # "fin"
    THEN F32NaN   \* NaN - Infinity, or (-Infinity) / (-Infinity)
    ELSE IF max.v = min.v
         THEN (IF h.v = min.v THEN F32NaN
               ELSE IF h.v > min.v THEN F32PosInf ELSE F32NegInf)
         ELSE F32Quot(h.v - min.v, max.v - min.v)

\* generateHeightmapCore(seed, options, deps): hexGrid and heightMap, with the final
\* values of the locals min and max
generateHeightmapCore(seed, options) ==
    LET hexGrid == createHexGrid(options.gridWidth, options.gridHeight)
        done == CellLoop(seed, options, hexGrid, 1,
                         [heightMap |-> <<>>, min |-> InitialMin, max |-> InitialMax])
    IN  [hexGrid |-> hexGrid,
         heightMap |-> [i \in 1 .. Len(hexGrid) |->
                           Normalize(done.heightMap[i], done.min, done.max)],
         min |-> done.min, max |-> done.max]

(***************************************************************************)
(* SpecGen: three calls in a row, the first and the third with the same    *)
(* seed and options, the second with another input.                        *)
(***************************************************************************)
Seeds == {1, 2}

GenOptions ==
    [gridWidth : 0 .. MaxGenCols, gridHeight : 0 .. MaxGenRows,
     octaves : 0 .. MaxOctaves,
     gradientFalloff : {"circular", "none"},
     falloffCurve : {"linear", "smooth", "power"}]

GenInputs == [seed : Seeds, options : GenOptions]

\* inputs of the call in between
BetweenInputs ==
    {in \in GenInputs :
        /\ in.options.gridWidth = 2 /\ in.options.gridHeight = 1
        /\ in.options.octaves = 1 /\ in.options.falloffCurve = "linear"}

InitGen ==
    /\ \E x \in GenInputs, y \in BetweenInputs :
          gen = [pc |-> "run", calls |-> <<x, y, x>>, results |-> <<>>,
                 min |-> PosInf, max |-> NegInf]
    /\ merge = Idle
    /\ coast = Idle
    /\ browser = Idle
    /\ grid = Idle
    /\ sdf = Idle
    /\ stepper = Idle

GenerateHeightmap ==
    /\ gen.pc = "run"
    /\ Len(gen.results) < Len(gen.calls)
    /\ LET in == gen.calls[Len(gen.results) + 1]
           r == generateHeightmapCore(in.seed, in.options)
       IN  gen' = [gen EXCEPT !.results = Append(gen.results,
                                                 [hexGrid |-> r.hexGrid,
                                                  heightMap |-> r.heightMap]),
                              !.min = r.min, !.max = r.max]
    /\ UNCHANGED <<merge, coast, browser, grid, sdf, stepper>>

NextGen == GenerateHeightmap

SpecGen == InitGen /\ [][NextGen]_vars

(***************************************************************************)
(* maskCoastline of src/steps/02_maskCoastline-browser.js: the variant     *)
(* that traces the corners of the water hexes.  Pixel coordinates are      *)
(* kept in hundredths, as Math.round(v * 100) / 100 leaves them; the       *)
(* points of a loop are kept as a set.                                     *)
(***************************************************************************)
\* const { seaLevel = 0.5, hexSize = 20 } = options, heights in tenths
SeaLevelOf(options) == IF options.seaLevel = <<>> THEN 5 ELSE options.seaLevel[1]
HexSizeOf(options) == IF options.hexSize = <<>> THEN 20 ELSE options.hexSize[1]

\* Math.round(corner.x * 100) / 100 and Math.round(corner.y * 100) / 100 of corner j
RoundedCorner(cell, j, hexSize) ==
    LET c == Corner(cell, j, 1)
    IN  [x |-> c.hx * hexSize * 50,
         y |-> (c.hy * hexSize * 866025 * 2 + 10000) \div 20000]

\* gatherWaterHexCorners: the six rounded corners of every water hex, in order
RECURSIVE gatherWaterHexCorners(_, _, _, _)
gatherWaterHexCorners(hexGrid, isWater, hexSize, i) ==
    IF i > Len(hexGrid) THEN <<>>
    ELSE (IF isWater[i]
          THEN [j \in 1 .. 6 |-> RoundedCorner(hexGrid[i], j - 1, hexSize)]
          ELSE <<>>)
         \o gatherWaterHexCorners(hexGrid, isWater, hexSize, i + 1)

CornerCount(cornerList, p) == Cardinality({i \in DOMAIN cornerList : cornerList[i] = p})

\* the keys of cornerCounts in insertion order
RECURSIVE FirstSeen(_, _)
FirstSeen(cornerList, i) ==
    IF i > Len(cornerList) THEN <<>>
    ELSE (IF \E j \in 1 .. i - 1 : cornerList[j] = cornerList[i]
          THEN <<>> ELSE <<cornerList[i]>>)
         \o FirstSeen(cornerList, i + 1)

\* filterInteriorCorners: keep the corners counted fewer than 3 times
filterInteriorCorners(cornerList) ==
    SelectSeq(FirstSeen(cornerList, 1), LAMBDA p : CornerCount(cornerList, p) < 3)

\* distance <= hexSize * sqrt(3) * 1.15, squared, in hundredths
Connected(p, q, hexSize) ==
    (p.x - q.x) * (p.x - q.x) + (p.y - q.y) * (p.y - q.y) <= hexSize * hexSize * 39675

\* the while (changed) loop: the cluster grows by every unused point near one of its points
RECURSIVE GrowCluster(_, _, _)
GrowCluster(cluster, free, hexSize) ==
    LET more == {q \in free : \E p \in cluster : Connected(p, q, hexSize)}
    IN  IF more = {} THEN cluster
        ELSE GrowCluster(cluster \cup more, free \ more, hexSize)

\* if (cluster.length >= 3) clusters.push(cluster)
KeepsCluster(cluster) == Cardinality(cluster) >= 3

\* clusterAndSortCorners: the clusters of at least 3 points, in order of their first point
RECURSIVE clusterAndSortCorners(_, _, _, _)
clusterAndSortCorners(perimeterCorners, hexSize, i, used) ==
    IF i > Len(perimeterCorners) THEN <<>>
    ELSE IF perimeterCorners[i] \in used
         THEN clusterAndSortCorners(perimeterCorners, hexSize, i + 1, used)
         ELSE LET all == {perimeterCorners[k] : k \in DOMAIN perimeterCorners}
                  cluster == GrowCluster({perimeterCorners[i]},
                                         (all \ used) \ {perimeterCorners[i]}, hexSize)
              IN  (IF KeepsCluster(cluster) THEN <<cluster>> ELSE <<>>)
                  \o clusterAndSortCorners(perimeterCorners, hexSize, i + 1,
                                           used \cup cluster)

\* cornerLoopsToSVGPath: one "M ... L ... Z" part per loop, "" for no loop
cornerLoopsToSVGPath(cornerLoops) ==
    [i \in DOMAIN cornerLoops |-> [pts |-> cornerLoops[i], close |-> "Z"]]

maskCoastlineBrowser(hexGrid, heightMap, options) ==
    LET hexSize == HexSizeOf(options)
        isWater == [i \in DOMAIN heightMap |-> Below(heightMap[i], SeaLevelOf(options))]
        cornerList == gatherWaterHexCorners(hexGrid, isWater, hexSize, 1)
        perimeterCorners == filterInteriorCorners(cornerList)
        cornerLoops == clusterAndSortCorners(perimeterCorners, hexSize, 1, {})
    IN  [landMask |-> [i \in DOMAIN heightMap |-> IF isWater[i] THEN 0 ELSE 1],
         coastlinePath |-> cornerLoopsToSVGPath(cornerLoops),
         cornerLoops |-> cornerLoops,
         debugPerimeterPoints |-> perimeterCorners]

(***************************************************************************)
(* SpecBrowser: one call of the browser maskCoastline                      *)
(***************************************************************************)
\* hexSize in pixels: omitted (the default 20), 20 and 7
BrowserHexSizes == {<<>>, <<20>>, <<7>>}
BrowserSeaLevels == {<<>>, <<2>>, <<8>>}
BrowserOptions == [seaLevel : BrowserSeaLevels, hexSize : BrowserHexSizes]

InitBrowser ==
    /\ \E W \in 0 .. MaxCols, H \in 0 .. MaxRows :
          \E heightMap \in [1 .. W * H -> HeightLevels], options \in BrowserOptions :
             browser = [pc |-> "call", hexGrid |-> createHexGrid(W, H),
                        heightMap |-> heightMap, options |-> options, result |-> <<>>]
    /\ merge = Idle
    /\ coast = Idle
    /\ gen = Idle
    /\ grid = Idle
    /\ sdf = Idle
    /\ stepper = Idle

\* the arguments as the browser variant leaves them: isWater and landMask are new
\* arrays, hexGrid is read by index and with forEach
ArgsAfterCallBrowser(hexGrid, heightMap, landMask) ==
    [hexGrid |-> hexGrid, heightMap |-> heightMap]

MaskCoastlineBrowser ==
    /\ browser.pc = "call"
    /\ LET result == maskCoastlineBrowser(browser.hexGrid, browser.heightMap,
                                          browser.options)
           args == ArgsAfterCallBrowser(browser.hexGrid, browser.heightMap,
                                        result.landMask)
       IN  browser' = [browser EXCEPT !.pc = "returned",
                                      !.result = result,
                                      !.hexGrid = args.hexGrid,
                                      !.heightMap = args.heightMap]
    /\ UNCHANGED <<merge, coast, gen, grid, sdf, stepper>>

NextBrowser == MaskCoastlineBrowser

SpecBrowser == InitBrowser /\ [][NextBrowser]_vars

(***************************************************************************)
(* SpecLake: one call of maskCoastline on a grid with exactly one water    *)
(* cell, every other cell land.                                            *)
(***************************************************************************)
MaxLakeCols == 3
MaxLakeRows == 3

\* heightMap with the water height at index w and the land height elsewhere
LakeHeights(n, w) == [i \in 1 .. n |-> IF i = w THEN 3 ELSE 7]

LakeOptions == {o \in CoastOptions : o.seaLevel \in {5, 7}}

InitLake ==
    /\ \E W \in 1 .. MaxLakeCols, H \in 1 .. MaxLakeRows :
       \E w \in 1 .. (W * H), options \in LakeOptions :
          coast = [pc |-> "call", W |-> W, H |-> H,
                   hexGrid |-> createHexGrid(W, H),
                   heightMap |-> LakeHeights(W * H, w), options |-> options,
                   result |-> <<>>, azgaar |-> <<>>]
    /\ merge = Idle
    /\ gen = Idle
    /\ browser = Idle
    /\ grid = Idle
    /\ sdf = Idle
    /\ stepper = Idle

NextLake == MaskCoastline

SpecLake == InitLake /\ [][NextLake]_vars

(***************************************************************************)
(* SpecMismatch: one call of maskCoastline with a heightMap one value      *)
(* shorter or one value longer than the grid.                              *)
(***************************************************************************)
MismatchOptions ==
    {o \in CoastOptions : o.seaLevel \in {5, 7} /\ o.hexSize = <<20>>
                          /\ o.smoothingIterations = <<>>}

InitMismatch ==
    /\ \E W \in 1 .. MaxCols, H \in 1 .. MaxRows :
       \E L \in {W * H - 1, W * H + 1} :
       \E heightMap \in [1 .. L -> HeightLevels] :
       \E options \in MismatchOptions :
          coast = [pc |-> "call", W |-> W, H |-> H,
                   hexGrid |-> createHexGrid(W, H),
                   heightMap |-> heightMap, options |-> options,
                   result |-> <<>>, azgaar |-> <<>>]
    /\ merge = Idle
    /\ gen = Idle
    /\ browser = Idle
    /\ grid = Idle
    /\ sdf = Idle
    /\ stepper = Idle

NextMismatch == MaskCoastline

SpecMismatch == InitMismatch /\ [][NextMismatch]_vars

(***************************************************************************)
(* SpecFrame: both variants of maskCoastline, each called once on the same *)
(* grid and heightMap.                                                     *)
(***************************************************************************)
FrameBrowserOptions == {o \in BrowserOptions : o.hexSize = <<20>>}

InitFrame ==
    /\ \E W \in 0 .. MaxCols, H \in 0 .. MaxRows :
       \E heightMap \in [1 .. (W * H) -> HeightLevels] :
       \E options \in MismatchOptions, boptions \in FrameBrowserOptions :
          /\ coast = [pc |-> "call", W |-> W, H |-> H,
                      hexGrid |-> createHexGrid(W, H),
                      heightMap |-> heightMap, options |-> options,
                      result |-> <<>>, azgaar |-> <<>>]
          /\ browser = [pc |-> "call", hexGrid |-> createHexGrid(W, H),
                        heightMap |-> heightMap, options |-> boptions,
                        result |-> <<>>]
    /\ merge = Idle
    /\ gen = Idle
    /\ grid = Idle
    /\ sdf = Idle
    /\ stepper = Idle

NextFrame == MaskCoastline \/ MaskCoastlineBrowser

SpecFrame == InitFrame /\ [][NextFrame]_vars

(***************************************************************************)
(* SpecStages: generateHeightmapCore and maskCoastline, each called once   *)
(* for the same grid dimensions.                                           *)
(***************************************************************************)
StageGenOptions ==
    {o \in GenOptions : o.falloffCurve = "linear"}
StageCoastOptions ==
    {o \in CoastOptions : o.seaLevel = 5 /\ o.smoothingIterations = <<>>}

\* both stages run on grids of up to MaxStageCols x MaxStageRows cells
MaxStageCols == 2
MaxStageRows == 1

InitStages ==
    /\ \E W \in 0 .. MaxStageCols, H \in 0 .. MaxStageRows :
       \E go \in StageGenOptions, co \in StageCoastOptions,
          heightMap \in [1 .. (W * H) -> HeightLevels] :
          /\ go.gridWidth = W /\ go.gridHeight = H
          /\ gen = [pc |-> "run", calls |-> << [seed |-> 1, options |-> go] >>,
                    results |-> <<>>, min |-> PosInf, max |-> NegInf]
          /\ coast = [pc |-> "call", W |-> W, H |-> H,
                      hexGrid |-> createHexGrid(W, H),
                      heightMap |-> heightMap, options |-> co,
                      result |-> <<>>, azgaar |-> <<>>]
    /\ merge = Idle
    /\ browser = Idle
    /\ grid = Idle
    /\ sdf = Idle
    /\ stepper = Idle

NextStages == GenerateHeightmap \/ MaskCoastline

SpecStages == InitStages /\ [][NextStages]_vars

(***************************************************************************)
(* getNeighbors (src/demo/stepper.js) and SpecGrid: createHexGrid(W, H),   *)
(* then getNeighbors for cells of the grid and cells next to it.           *)
(***************************************************************************)
MaxGridCols == 3
MaxGridRows == 3

\* the six [dCol, dRow] of getNeighbors: E, NE, NW, W, SW, SE
directions == << <<1, 0>>, <<1, -1>>, <<0, -1>>, <<-1, -1>>, <<-1, 0>>, <<0, 1>> >>

\* getNeighbors without the tests newCol < W and newRow < H
getNeighborsUnbounded(cell, W, H) ==
    LET cand == [d \in 1 .. 6 |-> [col |-> cell.col + directions[d][1],
                                   row |-> cell.row + directions[d][2]]]
    IN  SelectSeq(cand, LAMBDA n : n.col >= 0 /\ n.row >= 0)

\* getNeighbors(cell, W, H): the cells cell + direction that pass the bounds check
getNeighbors(cell, W, H) ==
    LET cand == [d \in 1 .. 6 |-> [col |-> cell.col + directions[d][1],
                                   row |-> cell.row + directions[d][2]]]
    IN  SelectSeq(cand, LAMBDA n : n.col >= 0 /\ n.col < W /\ n.row >= 0 /\ n.row < H)

InitGrid ==
    /\ \E W \in -1 .. MaxGridCols, H \in -1 .. MaxGridRows :
          grid = [pc |-> "new", W |-> W, H |-> H, cells |-> <<>>, raised |-> FALSE,
                  cell |-> <<>>, neighbors |-> <<>>]
    /\ merge = Idle
    /\ coast = Idle
    /\ gen = Idle
    /\ browser = Idle
    /\ sdf = Idle
    /\ stepper = Idle

\* createHexGrid has no throw statement and calls nothing that throws on numbers
CreateHexGrid ==
    /\ grid.pc = "new"
    /\ grid' = [grid EXCEPT !.pc = "made", !.cells = createHexGrid(grid.W, grid.H),
                            !.raised = FALSE]
    /\ UNCHANGED <<merge, coast, gen, browser, sdf, stepper>>

GetNeighbors ==
    /\ grid.pc \in {"made", "asked"}
    /\ \E col \in -1 .. grid.W, row \in -1 .. grid.H :
          grid' = [grid EXCEPT !.pc = "asked",
                               !.cell = << [col |-> col, row |-> row] >>,
                               !.neighbors = getNeighbors([col |-> col, row |-> row],
                                                          grid.W, grid.H)]
    /\ UNCHANGED <<merge, coast, gen, browser, sdf, stepper>>

NextGrid == CreateHexGrid \/ GetNeighbors

SpecGrid == InitGrid /\ [][NextGrid]_vars

(***************************************************************************)
(* computeSignedDistanceField (src/utils/azgaarHexMap.js).  Every value    *)
(* the function stores is an integer of magnitude below 2^24, which a      *)
(* Float32Array holds exactly.                                             *)
(***************************************************************************)
\* const INF = 1e6
INF == 1000000

MinOf(a, b) == IF b < a THEN b ELSE a
MaxOf(a, b) == IF b > a THEN b ELSE a

\* landMask[i] as a condition; an index past the end reads undefined
IsLandCell(landMask, i) == i + 1 <= Len(landMask) /\ landMask[i + 1] # 0

\* 1st pass: dist[i] = landMask[i] ? INF : -INF
InitDist(landMask, N) ==
    [k \in 1 .. (IF N > 0 THEN N ELSE 0) |->
        IF IsLandCell(landMask, k - 1) THEN INF ELSE 0 - INF]

\* the body of the forward loops at i = y * width + x
ForwardCell(dist, landMask, width, i) ==
    LET x == i % width
        y == i \div width
        a == IF x > 0
             THEN (IF IsLandCell(landMask, i) THEN MinOf(dist[i + 1], dist[i] + 1)
                   ELSE MaxOf(dist[i + 1], dist[i] - 1))
             ELSE dist[i + 1]
        b == IF y > 0
             THEN (IF IsLandCell(landMask, i) THEN MinOf(a, dist[i + 1 - width] + 1)
                   ELSE MaxOf(a, dist[i + 1 - width] - 1))
             ELSE a
    IN  [dist EXCEPT ![i + 1] = b]

\* 2nd pass: y from 0 to height - 1, x from 0 to width - 1, that is i ascending
RECURSIVE ForwardPass(_, _, _, _, _)
ForwardPass(dist, landMask, width, N, i) ==
    IF i >= N \/ Len(dist) # N THEN dist
    ELSE ForwardPass(ForwardCell(dist, landMask, width, i), landMask, width, N, i + 1)

\* the body of the backward loops at i = y * width + x
BackwardCell(dist, landMask, width, height, i) ==
    LET x == i % width
        y == i \div width
        a == IF x < width - 1
             THEN (IF IsLandCell(landMask, i) THEN MinOf(dist[i + 1], dist[i + 2] + 1)
                   ELSE MaxOf(dist[i + 1], dist[i + 2] - 1))
             ELSE dist[i + 1]
        b == IF y < height - 1
             THEN (IF IsLandCell(landMask, i) THEN MinOf(a, dist[i + 1 + width] + 1)
                   ELSE MaxOf(a, dist[i + 1 + width] - 1))
             ELSE a
    IN  [dist EXCEPT ![i + 1] = b]

\* 3rd pass: y from height - 1 to 0, x from width - 1 to 0, that is i descending
RECURSIVE BackwardPass(_, _, _, _, _)
BackwardPass(dist, landMask, width, height, i) ==
    IF i < 0 \/ Len(dist) = 0 THEN dist
    ELSE BackwardPass(BackwardCell(dist, landMask, width, height, i),
                      landMask, width, height, i - 1)

\* if (!landMask[i] && dist[i] > 0) dist[i] = -dist[i]
NegateSea(dist, landMask) ==
    [k \in 1 .. Len(dist) |->
        IF ~IsLandCell(landMask, k - 1) /\ dist[k] > 0 THEN 0 - dist[k] ELSE dist[k]]

computeSignedDistanceField(landMask, width, height) ==
    LET N == width * height
        d1 == InitDist(landMask, N)
        d2 == ForwardPass(d1, landMask, width, N, 0)
        d3 == BackwardPass(d2, landMask, width, height, N - 1)
    IN  NegateSea(d3, landMask)

(***************************************************************************)
(* SpecSdf: one call of computeSignedDistanceField on a land mask of       *)
(* width * height entries.                                                 *)
(***************************************************************************)
MaxSdfCols == 3
MaxSdfRows == 2

InitSdf ==
    /\ \E width \in 0 .. MaxSdfCols, height \in 0 .. MaxSdfRows :
       \E landMask \in [1 .. (width * height) -> {0, 1}] :
          sdf = [pc |-> "call", landMask |-> landMask, width |-> width,
                 height |-> height, dist |-> <<>>]
    /\ merge = Idle
    /\ coast = Idle
    /\ gen = Idle
    /\ browser = Idle
    /\ grid = Idle
    /\ stepper = Idle

ComputeSignedDistanceField ==
    /\ sdf.pc = "call"
    /\ sdf' = [sdf EXCEPT !.pc = "returned",
                          !.dist = computeSignedDistanceField(sdf.landMask, sdf.width,
                                                              sdf.height)]
    /\ UNCHANGED <<merge, coast, gen, browser, grid, stepper>>

NextSdf == ComputeSignedDistanceField

SpecSdf == InitSdf /\ [][NextSdf]_vars

(***************************************************************************)
(* SpecDist: the radial gradient of generateHeightmapCore for one cell of  *)
(* a grid: dist = sqrt(dx * dx + dy * dy) / maxDist, kept as the two       *)
(* squares in units of hexSize^2 / 4.                                      *)
(***************************************************************************)
MaxDistCols == 4
MaxDistRows == 7

InitDistance ==
    /\ \E W \in 1 .. MaxDistCols, H \in 1 .. MaxDistRows :
       \E i \in 1 .. (W * H) :
          gen = [pc |-> "cell",
                 options |-> [gridWidth |-> W, gridHeight |-> H],
                 hex |-> createHexGrid(W, H)[i],
                 dist2 |-> 0, maxDist2 |-> 0]
    /\ merge = Idle
    /\ coast = Idle
    /\ browser = Idle
    /\ grid = Idle
    /\ sdf = Idle
    /\ stepper = Idle

\* const dx = px - centerX; const dy = py - centerY; dist = sqrt(dx*dx + dy*dy) / maxDist
CellDistance ==
    /\ gen.pc = "cell"
    /\ gen' = [gen EXCEPT !.pc = "measured",
                          !.dist2 = PixelDist2(gen.hex, centerHex(gen.options)),
                          !.maxDist2 = MaxDist2(gen.options)]
    /\ UNCHANGED <<merge, coast, browser, grid, sdf, stepper>>

NextDistance == CellDistance

SpecDist == InitDistance /\ [][NextDistance]_vars

(***************************************************************************)
(* SpecClassify: the three classifiers, each called once on the same       *)
(* heightMap and seaLevel; a height may be NaN.                            *)
(***************************************************************************)
MaxClassCols == 2
MaxClassRows == 1

ClassifyHeights == HeightLevels \cup {NotANumber}

InitClassify ==
    /\ \E W \in 0 .. MaxClassCols, H \in 0 .. MaxClassRows :
       \E heightMap \in [1 .. (W * H) -> ClassifyHeights] :
       \E options \in MismatchOptions :
          /\ coast = [pc |-> "call", W |-> W, H |-> H,
                      hexGrid |-> createHexGrid(W, H),
                      heightMap |-> heightMap, options |-> options,
                      result |-> <<>>, azgaar |-> <<>>]
          /\ browser = [pc |-> "call", hexGrid |-> createHexGrid(W, H),
                        heightMap |-> heightMap,
                        options |-> [seaLevel |-> <<options.seaLevel>>,
                                     hexSize |-> <<20>>],
                        result |-> <<>>]
    /\ merge = Idle
    /\ gen = Idle
    /\ grid = Idle
    /\ sdf = Idle
    /\ stepper = Idle

NextClassify == MaskCoastline \/ MaskCoastlineBrowser \/ ComputeLandMask

SpecClassify == InitClassify /\ [][NextClassify]_vars

(***************************************************************************)
(* SpecChaikin: one call of chaikin on a loop of lattice points.  pts      *)
(* holds the value of the local pts after 0, 1, ..., iterations passes.    *)
(***************************************************************************)
MaxLoopPoints == 3
MaxIterations == 2

LoopPoints == [hx : 0 .. 1, hy : 0 .. 1, den : {1}, size : {<<20>>}]

InitChaikin ==
    /\ \E n \in 0 .. MaxLoopPoints :
       \E points \in [1 .. n -> LoopPoints], iterations \in 0 .. MaxIterations :
          coast = [pc |-> "smooth", points |-> points, iterations |-> iterations,
                   pts |-> <<>>, result |-> <<>>]
    /\ merge = Idle
    /\ gen = Idle
    /\ browser = Idle
    /\ grid = Idle
    /\ sdf = Idle
    /\ stepper = Idle

Chaikin ==
    /\ coast.pc = "smooth"
    /\ coast' = [coast EXCEPT
                    !.pc = "smoothed",
                    !.pts = [t \in 1 .. (coast.iterations + 1) |->
                                chaikin(coast.points, t - 1)],
                    !.result = chaikin(coast.points, coast.iterations)]
    /\ UNCHANGED <<merge, gen, browser, grid, sdf, stepper>>

NextChaikin == Chaikin

SpecChaikin == InitChaikin /\ [][NextChaikin]_vars

(***************************************************************************)
(* MapGeneratorStepper (src/demo/stepper.js).  An invocation of an async   *)
(* method is a task: it runs to its first await when it is called and one  *)
(* continuation at a time after that.  tasks[id] is the task with number   *)
(* id; consoleLog is 0 for the function console.log held before any step  *)
(* ran and id for the wrapper installed by task id; mapData is the set of  *)
(* the steps whose outputs are stored in this.mapData.                     *)
(***************************************************************************)
\* this.steps.length
NumSteps == 8

Buttons == {"prevStep", "nextStep", "runAll", "reset"}

\* addEventListeners: one more click listener on each of the four buttons
addEventListeners(listeners) == [b \in Buttons |-> listeners[b] + 1]

\* createUI: the buttons are created without listeners, then addEventListeners()
createUI(listeners) == addEventListeners([b \in Buttons |-> 0])

\* init: createUI(); updateStepDisplay(); addEventListeners()
init(listeners) == addEventListeners(createUI(listeners))

\* the object after "new MapGeneratorStepper(containerId)"
NewStepper(history) ==
    [pc |-> "ready", currentStep |-> 0, mapData |-> {}, consoleLog |-> 0,
     tasks |-> <<>>, listeners |-> init([b \in Buttons |-> 0]),
     pending |-> <<>>, clicks |-> <<>>, calls |-> 0, runAlls |-> 0, thrown |-> 0,
     history |-> history, ran |-> <<>>, lastRun |-> <<>>]

\* no continuation is waiting in the microtask queue
Drained(s) == \A id \in 1 .. Len(s.tasks) : s.tasks[id].pc \in {"timer", "done"}

\* runCurrentStep up to its await, for the task id of the given kind: console.log is
\* saved and wrapped, executeStep(this.currentStep) runs the step function; step 0
\* stores its outputs after "await generateHeightmap(...)", the other steps store
\* theirs at once; a step function that throws rejects the promise of executeStep
runCurrentStep(s, id, kind, i, throws) ==
    LET k == s.currentStep
        task == [kind |-> kind, i |-> i, step |-> k, orig |-> s.consoleLog,
                 failed |-> throws,
                 pc |-> IF k = 0 /\ ~throws THEN "exec0" ELSE "run"]
    IN  [s EXCEPT !.consoleLog = id,
                  !.thrown = IF throws THEN s.thrown + 1 ELSE s.thrown,
                  !.lastRun = <<[step |-> k, ready |-> 0 \in s.mapData]>>,
                  !.ran = IF s.history THEN Append(s.ran, k) ELSE s.ran,
                  !.mapData = IF ~throws /\ k >= 1 THEN s.mapData \cup {k} ELSE s.mapData,
                  !.tasks = IF id > Len(s.tasks) THEN Append(s.tasks, task)
                            ELSE [s.tasks EXCEPT ![id] = task]]

\* nextStep up to its await
nextStep(s, throws) ==
    IF s.currentStep < NumSteps - 1
    THEN runCurrentStep(s, Len(s.tasks) + 1, "next", 0, throws)
    ELSE s

\* previousStep
previousStep(s) ==
    IF s.currentStep > 0 THEN [s EXCEPT !.currentStep = s.currentStep - 1] ELSE s

\* one turn of the loop of runAllSteps up to the await of runCurrentStep
runAllTurn(s, id, i, throws) ==
    runCurrentStep([s EXCEPT !.currentStep = i], id, "runAll", i, throws)

\* runAllSteps up to its first await
runAllSteps(s, throws) == runAllTurn(s, Len(s.tasks) + 1, 0, throws)

\* reset
reset(s) == [s EXCEPT !.currentStep = 0, !.mapData = {}]

\* the continuation of task id that is next in the microtask queue
ResumeTask(s, id) ==
    LET t == s.tasks[id]
    IN  CASE t.pc = "exec0" ->
               \* executeStep case 0 after the await: this.mapData.hexGrid = ...
               [s EXCEPT !.mapData = s.mapData \cup {0}, !.tasks[id].pc = "run"]
          [] t.pc = "run" ->
               \* runCurrentStep after the await: console.log = originalLog, or the
               \* catch block, which leaves console.log as it is
               [s EXCEPT !.consoleLog = IF t.failed THEN s.consoleLog ELSE t.orig,
                         !.tasks[id].pc = IF t.kind = "next" THEN "after" ELSE "timer"]
          [] t.pc = "after" ->
               \* nextStep after the await: this.currentStep++
               [s EXCEPT !.currentStep = s.currentStep + 1, !.tasks[id].pc = "done"]
          [] OTHER -> s

\* the 500 ms timer of task id fires: i++ and the next turn of the loop, or the end
TimerOf(s, id, throws) ==
    LET t == s.tasks[id]
    IN  IF t.i + 1 < NumSteps
        THEN runAllTurn(s, id, t.i + 1, throws)
        ELSE [s EXCEPT !.tasks[id].pc = "done"]

(***************************************************************************)
(* SpecStepper: the methods invoked directly, in any order and also while  *)
(* earlier invocations are suspended.                                      *)
(***************************************************************************)
MaxCalls == 3
MaxRunAlls == 1
MaxThrows == 1

\* whether the step function about to run throws
Throws(s) == IF s.thrown < MaxThrows THEN BOOLEAN ELSE {FALSE}

InitStepper ==
    /\ stepper = NewStepper(FALSE)
    /\ merge = Idle
    /\ coast = Idle
    /\ gen = Idle
    /\ browser = Idle
    /\ grid = Idle
    /\ sdf = Idle

Others == <<merge, coast, gen, browser, grid, sdf>>

CallNext ==
    /\ stepper.pc = "ready"
    /\ stepper.calls < MaxCalls
    /\ \E throws \in Throws(stepper) :
          stepper' = [nextStep(stepper, throws) EXCEPT !.calls = stepper.calls + 1]
    /\ UNCHANGED Others

CallPrevious ==
    /\ stepper.pc = "ready"
    /\ stepper.calls < MaxCalls
    /\ stepper' = [previousStep(stepper) EXCEPT !.calls = stepper.calls + 1]
    /\ UNCHANGED Others

CallRunAll ==
    /\ stepper.pc = "ready"
    /\ stepper.calls < MaxCalls
    /\ stepper.runAlls < MaxRunAlls
    /\ \E throws \in Throws(stepper) :
          stepper' = [runAllSteps(stepper, throws) EXCEPT !.calls = stepper.calls + 1,
                                                          !.runAlls = stepper.runAlls + 1]
    /\ UNCHANGED Others

CallReset ==
    /\ stepper.pc = "ready"
    /\ stepper.calls < MaxCalls
    /\ stepper' = [reset(stepper) EXCEPT !.calls = stepper.calls + 1]
    /\ UNCHANGED Others

\* the event loop runs one continuation from the microtask queue
Resume ==
    /\ stepper.pc = "ready"
    /\ \E id \in 1 .. Len(stepper.tasks) :
          /\ stepper.tasks[id].pc \in {"exec0", "run", "after"}
          /\ stepper' = ResumeTask(stepper, id)
    /\ UNCHANGED Others

\* a timer of runAllSteps fires; timers run when the microtask queue is empty
TimerFires ==
    /\ stepper.pc = "ready"
    /\ Drained(stepper)
    /\ \E id \in 1 .. Len(stepper.tasks), throws \in Throws(stepper) :
          /\ stepper.tasks[id].pc = "timer"
          /\ stepper' = TimerOf(stepper, id, throws)
    /\ UNCHANGED Others

NextStepper ==
    CallNext \/ CallPrevious \/ CallRunAll \/ CallReset \/ Resume \/ TimerFires

SpecStepper == InitStepper /\ [][NextStepper]_vars

(***************************************************************************)
(* SpecSequence: nextStep invoked again and again, each invocation after   *)
(* the one before it has finished.  ran is the sequence of the indexes     *)
(* passed to executeStep.                                                  *)
(***************************************************************************)
MaxNextCalls == 9

InitSequence ==
    /\ stepper = NewStepper(TRUE)
    /\ merge = Idle
    /\ coast = Idle
    /\ gen = Idle
    /\ browser = Idle
    /\ grid = Idle
    /\ sdf = Idle

\* await stepper.nextStep()
AwaitedNext ==
    /\ stepper.pc = "ready"
    /\ \A id \in 1 .. Len(stepper.tasks) : stepper.tasks[id].pc = "done"
    /\ stepper.calls < MaxNextCalls
    /\ \E throws \in Throws(stepper) :
          stepper' = [nextStep(stepper, throws) EXCEPT !.calls = stepper.calls + 1]
    /\ UNCHANGED Others

NextSequence == AwaitedNext \/ Resume

SpecSequence == InitSequence /\ [][NextSequence]_vars

(***************************************************************************)
(* SpecClicks: the stepper is constructed and its buttons are clicked.  A  *)
(* click calls the listeners of the button one after the other, each when  *)
(* the microtask queue is empty; pending holds the listeners still to be   *)
(* called, clicks the buttons clicked so far.                              *)
(***************************************************************************)
MaxClicks == 1

InitClicks ==
    /\ stepper = [pc |-> "new"]
    /\ merge = Idle
    /\ coast = Idle
    /\ gen = Idle
    /\ browser = Idle
    /\ grid = Idle
    /\ sdf = Idle

\* new MapGeneratorStepper(containerId)
Construct ==
    /\ stepper.pc = "new"
    /\ stepper' = NewStepper(TRUE)
    /\ UNCHANGED Others

Click ==
    /\ stepper.pc = "ready"
    /\ Len(stepper.clicks) < MaxClicks
    /\ stepper.pending = <<>>
    /\ Drained(stepper)
    /\ \E b \in Buttons :
          stepper' = [stepper EXCEPT !.clicks = Append(stepper.clicks, b),
                                     !.pending = [n \in 1 .. stepper.listeners[b] |-> b]]
    /\ UNCHANGED Others

\* the listener registered by addEventListeners for the button b
Listener(s, b, throws) ==
    CASE b = "prevStep" -> previousStep(s)
      [] b = "nextStep" -> nextStep(s, throws)
      [] b = "runAll" -> runAllSteps(s, throws)
      [] OTHER -> reset(s)

\* the next listener of the clicked button is called
Dispatch ==
    /\ stepper.pc = "ready"
    /\ stepper.pending # <<>>
    /\ Drained(stepper)
    /\ \E throws \in Throws(stepper) :
          stepper' = [Listener(stepper, Head(stepper.pending), throws)
                         EXCEPT !.pending = Tail(stepper.pending)]
    /\ UNCHANGED Others

NextClicks == Construct \/ Click \/ Dispatch \/ Resume \/ TimerFires

SpecClicks == InitClicks /\ [][NextClicks]_vars

(***************************************************************************)
(* Properties of maskCoastline (SpecCoast)                                 *)
(***************************************************************************)
Returned == coast.pc = "returned"
Cells == 1 .. Len(coast.hexGrid)
AllLand == \A i \in Cells : coast.heightMap[i] >= coast.options.seaLevel
AllWater == \A i \in Cells : coast.heightMap[i] < coast.options.seaLevel

\* the land mask the definition of LandMask asks for
MaskIsThreshold(mask) ==
    /\ Len(mask) = Len(coast.heightMap)
    /\ \A i \in 1 .. Len(mask) :
          /\ (mask[i] = 1) <=> (coast.heightMap[i] >= coast.options.seaLevel)
          /\ (mask[i] = 0) <=> (coast.heightMap[i] < coast.options.seaLevel)

\* C1: the landMask returned by maskCoastline, and the one returned by
\* computeLandMask, has the length of the heightmap and holds 1 exactly where
\* heightMap[i] >= seaLevel and 0 elsewhere, for every seaLevel passed.
C1_LandMaskThreshold ==
    /\ Returned => MaskIsThreshold(coast.result.landMask)
    /\ coast.azgaar # <<>> => MaskIsThreshold(coast.azgaar[1])

\* both functions have returned, one cell is exactly at sea level (and is land),
\* another is below it
C1_Witness ==
    /\ Returned
    /\ coast.azgaar # <<>>
    /\ \E i, j \in Cells :
          /\ coast.heightMap[i] = coast.options.seaLevel
          /\ coast.result.landMask[i] = 1
          /\ coast.azgaar[1][i] = 1
          /\ coast.heightMap[j] < coast.options.seaLevel
          /\ coast.result.landMask[j] = 0

\* the positions <<n, i>> of the loops whose cyclically consecutive points are a and b
LoopUses(loops, a, b) ==
    {pos \in UNION {{<<n, i>> : i \in 1 .. Len(loops[n].pts)} : n \in 1 .. Len(loops)} :
        LET pts == loops[pos[1]].pts
        IN  {pts[pos[2]], pts[(pos[2] % Len(pts)) + 1]} = {a, b}}

EdgesConsumedOnce(segments, loops) ==
    /\ \A n \in 1 .. Len(segments) :
          Cardinality(LoopUses(loops, segments[n][1], segments[n][2])) = 1
    /\ \A n \in 1 .. Len(loops) : \A i \in 1 .. Len(loops[n].pts) :
          LET pts == loops[n].pts
          IN  \E k \in 1 .. Len(segments) :
                 {segments[k][1], segments[k][2]} = {pts[i], pts[(i % Len(pts)) + 1]}

\* C2: for every grid of createHexGrid, every land mask and every finite
\* hexSize > 0, every collected boundary segment is a pair of cyclically consecutive
\* points of exactly one returned loop, and every such pair of every loop is a
\* collected segment.
C2_EdgesConsumedOnce ==
    (Returned /\ coast.options.hexSize # <<>>) =>
        EdgesConsumedOnce(coast.result.segments, coast.result.loops)

ClosedSimpleRing(loop) ==
    /\ Len(loop.pts) >= 3
    /\ \A i, j \in 1 .. Len(loop.pts) : i # j => loop.pts[i] # loop.pts[j]
    /\ loop.closed

\* C3: every loop returned for hex-grid boundary segments has at least 3 pairwise
\* distinct points and its walk ended by arriving back at its start point.
C3_LoopsAreClosedRings ==
    Returned => \A n \in 1 .. Len(coast.result.loops) :
                    ClosedSimpleRing(coast.result.loops[n])

\* the sides <<i, edge>> of cells that face off the grid
OffGridSides ==
    {sd \in Cells \X (0 .. 5) :
        coordToIndex(coast.hexGrid, coast.hexGrid[sd[1]].q + dirs[sd[2] + 1][1],
                     coast.hexGrid[sd[1]].r + dirs[sd[2] + 1][2]) = 0}

C10_MixedGridHasClosedPath ==
    (Returned /\ ~AllLand /\ ~AllWater) =>
        \E n \in 1 .. Len(coast.result.coastlinePath) :
            coast.result.coastlinePath[n].close = "Z"

(***************************************************************************)
(* Properties of generateHeightmapCore (SpecGen)                           *)
(***************************************************************************)
\* the locals min and max of the call that has just returned
LastMin == gen.min
LastMax == gen.max
LastResult == gen.results[Len(gen.results)]
GenReturned == gen.pc = "run" /\ Len(gen.results) >= 1
NonFlat == LastMin.k = "fin" /\ LastMax.k = "fin" /\ LastMax.v > LastMin.v
Flat == Len(LastResult.hexGrid) > 0 /\ ~NonFlat

\* a Float32Array element compared with 0 and with 1
IsFinite(x) == x.k = "fin"
IsZero(x) == x.k = "fin" /\ x.m = 0
IsOne(x) == x.k = "fin" /\ x.m = Pow2(F32Bits - 1) /\ x.e = 0 - (F32Bits - 1)
InUnitInterval(x) ==
    /\ x.k = "fin"
    /\ x.m >= 0
    /\ IsZero(x) \/ (x.e < 0 /\ x.m <= Pow2(0 - x.e))

C6_NormalizedRange ==
    (GenReturned /\ NonFlat)
        => /\ \A i \in DOMAIN LastResult.heightMap : InUnitInterval(LastResult.heightMap[i])
           /\ \E i \in DOMAIN LastResult.heightMap : IsZero(LastResult.heightMap[i])
           /\ \E i \in DOMAIN LastResult.heightMap : IsOne(LastResult.heightMap[i])

\* C7 (as claimed): after a call on a flat field of a non-empty grid, no heightMap
\* value is NaN or infinite.
C7_FlatFieldFallback ==
    (GenReturned /\ Flat)
        => \A i \in DOMAIN LastResult.heightMap : IsFinite(LastResult.heightMap[i])

(***************************************************************************)
(* Properties of the browser maskCoastline (SpecBrowser)                   *)
(***************************************************************************)
\* C9 (as claimed): on a non-empty grid whose cells are all water the browser variant
\* returns no loop, an empty coastlinePath and a landMask of all 0s.
C9_AllWaterNoLoops ==
    (/\ browser.pc = "returned"
     /\ Len(browser.hexGrid) > 0
     /\ \A i \in DOMAIN browser.heightMap :
           browser.heightMap[i] < SeaLevelOf(browser.options))
        => /\ browser.result.cornerLoops = <<>>
           /\ browser.result.coastlinePath = <<>>
           /\ \A i \in DOMAIN browser.result.landMask : browser.result.landMask[i] = 0

(***************************************************************************)
(* Properties of maskCoastline on a grid with one water cell (SpecLake)    *)
(***************************************************************************)
\* the water cells of the grid
WaterCells == {i \in Cells : coast.heightMap[i] < coast.options.seaLevel}
\* the cell has all six neighbors inside the grid
Interior(i) ==
    \A e \in 0 .. 5 :
        coordToIndex(coast.hexGrid, coast.hexGrid[i].q + dirs[e + 1][1],
                     coast.hexGrid[i].r + dirs[e + 1][2]) # 0
\* twice the shoelace sum of a ring, in units of hexSize^2 * sqrt(3) / 4 (a hex is 12);
\* y grows downwards on the screen, so a negative sum is a counter-clockwise ring
RECURSIVE ShoelaceFrom(_, _)
ShoelaceFrom(pts, i) ==
    IF i > Len(pts) THEN 0
    ELSE LET a == pts[i]
             b == pts[(i % Len(pts)) + 1]
         IN  (a.hx * b.hy - b.hx * a.hy) + ShoelaceFrom(pts, i + 1)
Shoelace(pts) == ShoelaceFrom(pts, 1)
CornersOf(i) == {Corner(coast.hexGrid[i], e, coast.options.hexSize) : e \in 0 .. 5}
\* the ring is the hexagon of cell i, counter-clockwise
IsLakeRing(loop, i) ==
    /\ loop.closed
    /\ Len(loop.pts) = 6
    /\ {loop.pts[k] : k \in 1 .. 6} = CornersOf(i)
    /\ Shoelace(loop.pts) = 0 - 12
\* the ring runs along every side that faces off the grid and encloses every cell
IsOuterRing(loop) ==
    /\ loop.closed
    /\ Len(loop.pts) = Cardinality(OffGridSides)
    /\ \A sd \in OffGridSides :
          \E k \in 1 .. Len(loop.pts) :
             {loop.pts[k], loop.pts[(k % Len(loop.pts)) + 1]} =
                {Corner(coast.hexGrid[sd[1]], sd[2], coast.options.hexSize),
                 Corner(coast.hexGrid[sd[1]], sd[2] + 1, coast.options.hexSize)}
    /\ Abs(Shoelace(loop.pts)) = 12 * Len(coast.hexGrid)

\* C11 (as claimed): when exactly one cell is water and it has all six neighbors in
\* the grid, the loops are exactly two: the counter-clockwise hexagon of the water
\* cell, of the area of one hex, and the ring of the outer land boundary around it.
C11_SingleLakeRing ==
    (Returned /\ Cardinality(WaterCells) = 1 /\ \A i \in WaterCells : Interior(i))
        => /\ Len(coast.result.loops) = 2
           /\ \E n, o \in 1 .. Len(coast.result.loops) :
                 /\ n # o
                 /\ \A i \in WaterCells : IsLakeRing(coast.result.loops[n], i)
                 /\ IsOuterRing(coast.result.loops[o])

\* the rings a consumer finds in the returned object: result.ringsPixel, or none when
\* the object has no such property
RingsOf(result) == IF "ringsPixel" \in DOMAIN result THEN result.ringsPixel ELSE <<>>

\* C12 (as claimed): every ring emitted into the coastlinePath is also returned as a
\* ring with an area > 0 and a flag clockwise that is the sign of the shoelace sum
\* over the ring's own points.
C12_RingsCarryOrientation ==
    Returned =>
        /\ Len(RingsOf(coast.result)) = Len(coast.result.coastlinePath)
        /\ \A n \in 1 .. Len(RingsOf(coast.result)) :
              LET ring == RingsOf(coast.result)[n]
              IN  /\ ring.area > 0
                  /\ ring.clockwise <=> (Shoelace(ring.pts) > 0)

(***************************************************************************)
(* Properties of the stages on the same dimensions (SpecStages)            *)
(***************************************************************************)
\* C13: with width 0 or height 0 the grid has no cell, generateHeightmapCore returns
\* an empty hexGrid and an empty heightMap, and maskCoastline returns an empty
\* landMask and the empty coastlinePath.
C13_EmptyGridEmptyOutputs ==
    (coast.pc # "idle" /\ gen.pc # "idle" /\ (coast.W = 0 \/ coast.H = 0))
        => /\ Len(coast.hexGrid) = 0
           /\ \A n \in 1 .. Len(gen.results) :
                 /\ Len(gen.results[n].hexGrid) = 0
                 /\ Len(gen.results[n].heightMap) = 0
           /\ Returned => /\ Len(coast.result.landMask) = 0
                          /\ coast.result.coastlinePath = <<>>

\* both stages have returned for a grid of width 0 and height 1
C13_Witness ==
    /\ coast.pc = "returned"
    /\ gen.pc = "run" /\ Len(gen.results) = 1
    /\ coast.W = 0 /\ coast.H = 1
    /\ gen.calls[1].options.gridWidth = 0 /\ gen.calls[1].options.gridHeight = 1
    /\ Len(gen.results[1].heightMap) = 0
    /\ coast.result.coastlinePath = <<>>

(***************************************************************************)
(* Properties of createHexGrid and getNeighbors (SpecGrid)                 *)
(***************************************************************************)
GridMade == grid.pc \in {"made", "asked"}

\* C14: for W, H >= 0 createHexGrid(W, H) returns W*H cells, the cell (col,row) of
\* [0,W) x [0,H) at index col*H + row (counted from 0) and nowhere else, each with
\* q = col and r = row - floor(col/2).
C14_GridCells ==
    (GridMade /\ grid.W >= 0 /\ grid.H >= 0)
        => /\ Len(grid.cells) = grid.W * grid.H
           /\ \A col \in 0 .. grid.W - 1, row \in 0 .. grid.H - 1 :
                 /\ grid.cells[col * grid.H + row + 1].col = col
                 /\ grid.cells[col * grid.H + row + 1].row = row
                 /\ Cardinality({k \in 1 .. Len(grid.cells) :
                                    grid.cells[k].col = col /\ grid.cells[k].row = row}) = 1
           /\ \A k \in 1 .. Len(grid.cells) :
                 /\ grid.cells[k].col \in 0 .. grid.W - 1
                 /\ grid.cells[k].row \in 0 .. grid.H - 1
                 /\ grid.cells[k].q = grid.cells[k].col
                 /\ 2 * (grid.cells[k].row - grid.cells[k].r) \in
                       {grid.cells[k].col, grid.cells[k].col - 1}
                 /\ DOMAIN grid.cells[k] = {"col", "row", "q", "r"}

\* a grid of 2 columns and 3 rows has been made
C14_Witness ==
    /\ GridMade
    /\ grid.W = 2 /\ grid.H = 3
    /\ Len(grid.cells) = 6
    /\ grid.cells[5] = [col |-> 1, row |-> 1, q |-> 1, r |-> 1]

\* the cell that getNeighbors was asked about
Asked == grid.cell[1]
InGrid(c) == c.col >= 0 /\ c.col < grid.W /\ c.row >= 0 /\ c.row < grid.H
\* axial coordinates of an offset cell: q = col, r = row - floor(col / 2)
AxialOf(c) == <<c.col, c.row - Floor2(c.col)>>
\* the six axial unit directions
AxialDirs == {<<1, 0>>, <<0, 1>>, <<-1, 1>>, <<-1, 0>>, <<0, -1>>, <<1, -1>>}
\* the two cells are adjacent in the hex tiling
HexAdjacent(a, b) ==
    <<AxialOf(b)[1] - AxialOf(a)[1], AxialOf(b)[2] - AxialOf(a)[2]>> \in AxialDirs
\* the hexagons of the two cells share a side: two corners in common
ShareSide(a, b) ==
    Cardinality({Corner(a, i, <<1>>) : i \in 0 .. 5} \cap
                {Corner(b, i, <<1>>) : i \in 0 .. 5}) = 2
NeighborSet(c) == LET s == getNeighbors(c, grid.W, grid.H) IN {s[k] : k \in 1 .. Len(s)}

\* C15 (as claimed): for every cell of the grid getNeighbors returns exactly the
\* cells of the grid adjacent to it in the hex tiling (axial coordinates one unit
\* direction apart, hexagons sharing a side), and the relation is symmetric.
C15_NeighborsAreAdjacent ==
    (grid.pc = "asked" /\ InGrid(Asked))
        => /\ \A k \in 1 .. Len(grid.cells) :
                 LET b == [col |-> grid.cells[k].col, row |-> grid.cells[k].row]
                 IN  /\ (b \in {grid.neighbors[j] : j \in 1 .. Len(grid.neighbors)})
                           <=> HexAdjacent(Asked, b)
                     /\ HexAdjacent(Asked, b) <=> ShareSide(Asked, b)
           /\ \A j \in 1 .. Len(grid.neighbors) :
                 Asked \in NeighborSet(grid.neighbors[j])

\* C16: getNeighbors returns at most 6 cells, all different, each the asked cell plus
\* one of the six directions, each with 0 <= col < W and 0 <= row < H, and every
\* direction whose target is in bounds is returned.
C16_NeighborsInBounds ==
    grid.pc = "asked"
        => /\ Len(grid.neighbors) <= 6
           /\ \A j \in 1 .. Len(grid.neighbors) :
                 /\ InGrid(grid.neighbors[j])
                 /\ \E d \in 1 .. 6 :
                       /\ grid.neighbors[j].col = Asked.col + directions[d][1]
                       /\ grid.neighbors[j].row = Asked.row + directions[d][2]
                 /\ \A i \in 1 .. Len(grid.neighbors) :
                       i # j => grid.neighbors[i] # grid.neighbors[j]
           /\ \A d \in 1 .. 6 :
                 LET n == [col |-> Asked.col + directions[d][1],
                           row |-> Asked.row + directions[d][2]]
                 IN  InGrid(n) => \E j \in 1 .. Len(grid.neighbors) : grid.neighbors[j] = n

\* getNeighbors was asked about a corner cell of a 3 x 3 grid and about the cell to
\* the left of the grid: directions were omitted, none wrapped
C16_Witness ==
    /\ grid.pc = "asked"
    /\ grid.W = 3 /\ grid.H = 3
    /\ \/ Asked = [col |-> 2, row |-> 2] /\ Len(grid.neighbors) = 3
       \/ Asked = [col |-> -1, row |-> 0] /\ Len(grid.neighbors) = 1

\* the call that produced the latest result
LastCall == gen.calls[Len(gen.results)]

\* C17: generateHeightmapCore returns hexGrid and heightMap both of length
\* gridWidth * gridHeight, and heightMap[i] is the normalized elevation of the cell
\* hexGrid[i], for every i.
C17_GridAndHeightsAligned ==
    (gen.pc = "run" /\ Len(gen.results) > 0)
        => /\ \A k \in 1 .. Len(gen.results) :
                 /\ Len(gen.results[k].hexGrid)
                       = gen.calls[k].options.gridWidth * gen.calls[k].options.gridHeight
                 /\ Len(gen.results[k].heightMap) = Len(gen.results[k].hexGrid)
           /\ \A i \in 1 .. Len(LastResult.hexGrid) :
                 LastResult.heightMap[i]
                    = Normalize(Fround(CellValue(LastCall.seed, LastCall.options,
                                                 LastResult.hexGrid[i])),
                                gen.min, gen.max)

\* a call returned a grid of four cells whose heights are not all the same
C17_Witness ==
    /\ gen.pc = "run" /\ Len(gen.results) > 0
    /\ Len(LastResult.hexGrid) = 4
    /\ LastResult.heightMap[1] # LastResult.heightMap[4]
    /\ LastResult.heightMap[1].k = "fin"
    /\ LastResult.heightMap[4].k = "fin"

\* C18 (as claimed): when heightMap.length differs from hexGrid.length the call of
\* maskCoastline does not return: no landMask and no coastline is produced.
C18_MismatchRaises ==
    Len(coast.heightMap) # Len(coast.hexGrid)
        => (coast.pc # "returned" /\ coast.result = <<>>)

\* C19 (as claimed): with a negative width or a negative height createHexGrid raises
\* an error and returns no grid.
C19_NegativeDimsFail ==
    (grid.pc # "idle" /\ (grid.W < 0 \/ grid.H < 0))
        => (grid.pc = "new" \/ grid.raised)

C21_SignMatchesMask ==
    sdf.pc = "returned"
        => /\ Len(sdf.dist) = sdf.width * sdf.height
           /\ \A k \in 1 .. Len(sdf.dist) :
                 /\ sdf.landMask[k] = 1 => sdf.dist[k] > 0
                 /\ sdf.landMask[k] = 0 => sdf.dist[k] < 0

(***************************************************************************)
(* Properties of the radial gradient (SpecDist)                            *)
(***************************************************************************)
\* C22 (as claimed): on every grid other than 1 x 1 the distance of every cell from
\* the center cell is at most maxDist, so that dist is in [0, 1]:
\* 9 * dcol^2 + 3 * dY^2 <= 9 * ccol^2 + 3 * cY^2.
C22_DistanceWithinMaxDist ==
    (gen.pc = "measured"
       /\ ~(gen.options.gridWidth = 1 /\ gen.options.gridHeight = 1))
        => /\ gen.maxDist2 > 0
           /\ gen.dist2 <= gen.maxDist2

(***************************************************************************)
(* Properties of the three classifiers (SpecClassify)                      *)
(***************************************************************************)
\* C23 (as claimed): on the same heightMap and seaLevel, maskCoastline of
\* 02_maskCoastline.js, maskCoastline of 02_maskCoastline-browser.js and
\* computeLandMask return the same landMask, element for element, also when a height
\* is NaN.
C23_ClassifiersAgree ==
    (coast.pc = "returned" /\ browser.pc = "returned" /\ coast.azgaar # <<>>)
        => /\ coast.result.landMask = coast.azgaar[1]
           /\ coast.result.landMask = browser.result.landMask

(***************************************************************************)
(* Properties of the neighbor scan (SpecLake)                              *)
(***************************************************************************)
\* the index of the cell at axial offset dirs[edge] from cell i, 0 for none
NeighborAt(i, edge) ==
    coordToIndex(coast.hexGrid, coast.hexGrid[i].q + dirs[edge + 1][1],
                                coast.hexGrid[i].r + dirs[edge + 1][2])
\* the side of cell i between its corners at 60 * edge and 60 * (edge + 1) degrees
SideOf(i, edge) ==
    <<Corner(coast.hexGrid[i], edge, coast.options.hexSize),
      Corner(coast.hexGrid[i], edge + 1, coast.options.hexSize)>>
\* the scan has pushed the side `edge` of cell i
Emitted(i, edge) ==
    \E n \in 1 .. Len(coast.result.segments) : coast.result.segments[n] = SideOf(i, edge)

\* C24: for every cell c and every edge e whose neighbor at dirs[e] is in the grid,
\* corner e of c is corner (e + 4) mod 6 of the neighbor and corner (e + 1) mod 6 of c
\* is corner (e + 3) mod 6 of the neighbor, and when c is land and the neighbor is
\* water the segment pushed for e is that common side.
C24_EdgeIsSharedSide ==
    coast.pc = "returned"
        => \A i \in 1 .. Len(coast.hexGrid), e \in 0 .. 5 :
              NeighborAt(i, e) # 0
                 => /\ Corner(coast.hexGrid[i], e, coast.options.hexSize)
                         = Corner(coast.hexGrid[NeighborAt(i, e)], (e + 4) % 6,
                                  coast.options.hexSize)
                    /\ Corner(coast.hexGrid[i], (e + 1) % 6, coast.options.hexSize)
                         = Corner(coast.hexGrid[NeighborAt(i, e)], (e + 3) % 6,
                                  coast.options.hexSize)
                    /\ (coast.result.landMask[i] = 1
                          /\ coast.result.landMask[NeighborAt(i, e)] = 0)
                         => Emitted(i, e)

\* the scan pushed the side towards a water cell of a land cell in an even column
\* and of a land cell in an odd column
C24_Witness ==
    /\ coast.pc = "returned"
    /\ \E i, j \in 1 .. Len(coast.hexGrid), e, f \in 0 .. 5 :
          /\ coast.hexGrid[i].col % 2 = 0 /\ coast.hexGrid[j].col % 2 = 1
          /\ coast.result.landMask[i] = 1 /\ coast.result.landMask[j] = 1
          /\ NeighborAt(i, e) # 0 /\ NeighborAt(j, f) # 0
          /\ coast.result.landMask[NeighborAt(i, e)] = 0
          /\ coast.result.landMask[NeighborAt(j, f)] = 0
          /\ Emitted(i, e) /\ Emitted(j, f)

(***************************************************************************)
(* Properties of chaikin (SpecChaikin)                                     *)
(***************************************************************************)
\* q = a * p0 + (1 - a) * p1 with a = w / 4, on points with a common denominator
Blend(q, w, p0, p1) ==
    /\ p0.den = p1.den
    /\ q.den = 4 * p0.den
    /\ q.hx = w * p0.hx + (4 - w) * p1.hx
    /\ q.hy = w * p0.hy + (4 - w) * p1.hy

\* C25: chaikin(points, k) on n points returns n * 2^k points; every iteration emits
\* for every cyclically consecutive pair (p_i, p_(i+1) mod n), in order, first
\* 0.75 * p_i + 0.25 * p_(i+1) and then 0.25 * p_i + 0.75 * p_(i+1); with k = 0 the
\* result is the input.
C25_ChaikinDoubles ==
    coast.pc = "smoothed"
        => /\ Len(coast.result) = Len(coast.points) * Pow2(coast.iterations)
           /\ coast.iterations = 0 => coast.result = coast.points
           /\ coast.pts[1] = coast.points
           /\ coast.pts[coast.iterations + 1] = coast.result
           /\ \A t \in 1 .. coast.iterations :
                 LET before == coast.pts[t]
                     after == coast.pts[t + 1]
                     n == Len(before)
                 IN  /\ Len(after) = 2 * n
                     /\ \A i \in 1 .. n :
                           /\ Blend(after[2 * i - 1], 3, before[i], before[(i % n) + 1])
                           /\ Blend(after[2 * i], 1, before[i], before[(i % n) + 1])

\* two iterations on a loop of three different points
C25_Witness ==
    /\ coast.pc = "smoothed"
    /\ coast.iterations = 2
    /\ Len(coast.points) = 3
    /\ Cardinality({coast.points[i] : i \in 1 .. 3}) = 3
    /\ Len(coast.result) = 12

(***************************************************************************)
(* Properties of MapGeneratorStepper (SpecStepper)                         *)
(***************************************************************************)
\* C26 (as claimed): in every reachable state 0 <= currentStep <= steps.length - 1.
C26_CurrentStepInRange ==
    stepper.pc = "ready"
        => (stepper.currentStep >= 0 /\ stepper.currentStep <= NumSteps - 1)

\* C27 (as claimed): whenever executeStep(k) runs for some k >= 1, the outputs of
\* step 0 are present in mapData.
C27_StepZeroOutputsPresent ==
    (stepper.pc = "ready" /\ stepper.lastRun # <<>>)
        => (stepper.lastRun[1].step >= 1 => stepper.lastRun[1].ready)

\* no invocation is suspended or waiting for its timer
Quiescent == \A id \in 1 .. Len(stepper.tasks) : stepper.tasks[id].pc = "done"

\* C28 (as claimed): when every runCurrentStep has finished, console.log is the
\* function that was installed before the first of them started.
C28_ConsoleLogRestored ==
    (stepper.pc = "ready" /\ Quiescent) => stepper.consoleLog = 0

(***************************************************************************)
(* Properties of nextStep invoked repeatedly (SpecSequence)                *)
(***************************************************************************)
\* C29 (as claimed): after nextStep has been invoked often enough, every step
\* 0 .. steps.length - 1 has been executed exactly once and in index order; the
\* last step has been executed.
C29_NextRunsEveryStepOnce ==
    (stepper.pc = "ready" /\ Quiescent /\ stepper.calls = MaxNextCalls)
        => stepper.ran = [k \in 1 .. NumSteps |-> k - 1]

(***************************************************************************)
(* Properties of the buttons (SpecClicks)                                  *)
(***************************************************************************)
\* C30 (as claimed): after construction every button has exactly one click listener,
\* and one click on Next runs exactly one step and advances currentStep by 1.
C30_OneListenerPerButton ==
    stepper.pc = "ready"
        => /\ \A b \in Buttons : stepper.listeners[b] = 1
           /\ (stepper.clicks = <<"nextStep">> /\ stepper.pending = <<>> /\ Quiescent)
                 => (Len(stepper.ran) = 1 /\ stepper.currentStep = 1)

================================================================
